---- MODULE Spec2Model ----
(***************************************************************************)
(* The snapshot detail view of Ephany-UI-React                             *)
(* (src/src/pages/SnapshotDetailPage.tsx): the aggregated bill of          *)
(* materials (aggregatedBOM) and the merchandising allocation (donutData)  *)
(* computed from the instance collection of one snapshot.                  *)
(***************************************************************************)
EXTENDS Integers, Sequences, FiniteSets, TLC

VARIABLES
    library,        \* asset id -> the nested Asset record every copy of that asset carries
    instances,      \* useState<AssetInstance[]>: the instance collection
    topCount,       \* useState<TopRange>: the top-N cutoff
    bomMap,         \* Map<number, BOMItem> of one aggregatedBOM run, in insertion order
    aggregatedBOM,  \* the sorted row list the run returns
    phase,          \* where the aggregatedBOM run stands
    i,              \* index of the instance the run is at
    j,              \* index of the component / optional component the run is at
    categoryMap,    \* Record<string, number> of one donutData run, in insertion order
    totalLF,        \* the running grand total of one donutData run
    mphase,         \* where the donutData run stands
    mi,             \* index of the instance the donutData run is at
    donutData,      \* the rows the donutData run returns
    totalMerchandisableLF,  \* the formatted grand total the run returns
    routeId,        \* the id parameter of the route
    mounted,        \* whether the view is mounted
    snapshot,       \* useState<Snapshot | null>
    project,        \* useState<Project | null>
    loading,        \* useState(true)
    loads           \* the runs of the load effect, oldest first

vars == <<library, instances, topCount, bomMap, aggregatedBOM, phase, i, j,
          categoryMap, totalLF, mphase, mi, donutData, totalMerchandisableLF,
          routeId, mounted, snapshot, project, loading, loads>>

bomVars == <<bomMap, aggregatedBOM, phase, i, j>>
merchVars == <<categoryMap, totalLF, mphase, mi, donutData, totalMerchandisableLF>>
loadVars == <<routeId, mounted, snapshot, project, loading, loads>>

----------------------------------------------------------------------------
(* Bounds of the model *)

MaxInstances == 2   \* longest instance collection

(* Input domains *)

AssetIds == {1, 2, 3}
NoAsset == 0                      \* a null / missing asset reference
NullAsset == [null |-> TRUE]      \* what a null / missing reference resolves to
Undefined == "undefined"          \* an omitted optional argument
Dash == "-"                       \* the placeholder the code writes as an em dash
Quantities == {1, 2}                \* quantity_required / quantity
AssetNames == (1 :> "P") @@ (2 :> "C") @@ (3 :> "D")
TypeIds == {"", "A-1", "B-2"}

RECURSIVE SeqsUpTo(_, _)
SeqsUpTo(S, n) ==
    IF n = 0 THEN {<<>>}
    ELSE LET shorter == SeqsUpTo(S, n - 1)
         IN  shorter \cup {Append(s, x) : s \in {t \in shorter : Len(t) = n - 1}, x \in S}

RECURSIVE SumSeq(_)
SumSeq(s) == IF s = <<>> THEN 0 ELSE Head(s) + SumSeq(Tail(s))

----------------------------------------------------------------------------
(* Data model: api/assets.ts *)

\* AssetComponent: a component definition of a parent asset
ComponentDefs(ids) ==
    {[child_asset |-> c, quantity_required |-> q, can_add_per_instance |-> f] :
        c \in ids, q \in Quantities, f \in BOOLEAN}
    \cup {[child_asset |-> NoAsset, quantity_required |-> 1, can_add_per_instance |-> FALSE]}

\* AssetComponentInstance.asset_component when the reference is missing
NoComponent == [missing |-> TRUE]

\* AssetComponentInstance: an optional component added to one instance
OptionalComponents(ids) ==
    {[asset_component |-> [child_asset |-> c], quantity |-> q] :
        c \in ids, q \in Quantities}
    \cup {[asset_component |-> [child_asset |-> NoAsset], quantity |-> 1],
          [asset_component |-> NoComponent, quantity |-> 1]}

\* Asset.overall_width: null, a number of millimetres, a text that is no number,
\* or no such key
NullWidth == [null |-> TRUE]
NumberWidth(n) == [number |-> n]
TextWidth == [text |-> "wide"]
AbsentWidth == [absent |-> TRUE]

\* custom_fields.merch_category when the key is absent
Absent == <<Undefined>>

\* Asset: the fields the two aggregators read
AssetRecord(a, typeId, width, comps) ==
    [id |-> a, name |-> AssetNames[a], type_id |-> typeId,
     manufacturer |-> [number |-> a], manufacturer_name |-> "M",
     overall_width |-> width, components |-> comps]

\* AssetInstance: the fields the two aggregators read
InstanceRecord(asset, opts, tag) ==
    [asset_details |-> asset, optional_components |-> opts, merch_category |-> tag]

----------------------------------------------------------------------------
(* aggregatedBOM: SnapshotDetailPage.tsx 219-279 *)

\* if (parentName): a string argument that is neither omitted nor empty
Truthy(s) == s # Undefined /\ s # ""

\* getManufacturerName (97-104); asset.manufacturer is a number, null, or a nested
\* object
GetManufacturerName(asset) ==
    IF asset = NullAsset THEN Dash
    ELSE IF "name" \in DOMAIN asset.manufacturer THEN asset.manufacturer.name
    ELSE IF Truthy(asset.manufacturer_name) THEN asset.manufacturer_name
    ELSE Dash

\* Set.prototype.add on an insertion-ordered set
SetAdd(set, x) ==
    IF \E k \in 1..Len(set) : set[k] = x THEN set ELSE Append(set, x)

\* bomMap.get(asset.id): the position of the row, 0 when there is none
RowIndex(map, id) ==
    IF \E k \in 1..Len(map) : map[k].assetId = id
    THEN CHOOSE k \in 1..Len(map) : map[k].assetId = id
    ELSE 0

\* a mutant of AddItem: bomMap.get always misses, so every call inserts a row
AddItemAlwaysInsert(map, asset, qty, isComp, parentName) ==
    IF asset = NullAsset THEN map
    ELSE Append(map,
            [assetId |-> asset.id,
             typeId |-> IF asset.type_id = "" THEN Dash
                        ELSE asset.type_id,
             name |-> asset.name,
             manufacturer |-> GetManufacturerName(asset),
             totalQuantity |-> qty,
             isComponent |-> isComp,
             contributingParents |-> IF Truthy(parentName) THEN <<parentName>> ELSE <<>>])

\* a mutant of AddItem: an existing row's total is overwritten, not incremented
AddItemOverwrite(map, asset, qty, isComp, parentName) ==
    IF asset = NullAsset THEN map
    ELSE LET k == RowIndex(map, asset.id) IN
         IF k # 0
         THEN [map EXCEPT ![k].totalQuantity = qty]
         ELSE Append(map,
                [assetId |-> asset.id,
                 typeId |-> IF asset.type_id = "" THEN Dash
                            ELSE asset.type_id,
                 name |-> asset.name,
                 manufacturer |-> GetManufacturerName(asset),
                 totalQuantity |-> qty,
                 isComponent |-> isComp,
                 contributingParents |->
                     IF Truthy(parentName) THEN <<parentName>> ELSE <<>>])

\* a mutant of AddItem: the parent name is recorded only when the row is created
AddItemFirstParentOnly(map, asset, qty, isComp, parentName) ==
    IF asset = NullAsset THEN map
    ELSE LET k == RowIndex(map, asset.id) IN
         IF k # 0
         THEN [map EXCEPT ![k].totalQuantity = @ + qty]
         ELSE Append(map,
                [assetId |-> asset.id,
                 typeId |-> IF asset.type_id = "" THEN Dash
                            ELSE asset.type_id,
                 name |-> asset.name,
                 manufacturer |-> GetManufacturerName(asset),
                 totalQuantity |-> qty,
                 isComponent |-> isComp,
                 contributingParents |->
                     IF Truthy(parentName) THEN <<parentName>> ELSE <<>>])

\* a mutant of AddItem: a row takes the role of the latest contribution
AddItemLatestRole(map, asset, qty, isComp, parentName) ==
    IF asset = NullAsset THEN map
    ELSE LET k == RowIndex(map, asset.id) IN
         IF k # 0
         THEN [map EXCEPT
                 ![k].totalQuantity = @ + qty,
                 ![k].isComponent = isComp,
                 ![k].contributingParents =
                     IF Truthy(parentName) THEN SetAdd(@, parentName) ELSE @]
         ELSE Append(map,
                [assetId |-> asset.id,
                 typeId |-> IF asset.type_id = "" THEN Dash
                            ELSE asset.type_id,
                 name |-> asset.name,
                 manufacturer |-> GetManufacturerName(asset),
                 totalQuantity |-> qty,
                 isComponent |-> isComp,
                 contributingParents |->
                     IF Truthy(parentName) THEN <<parentName>> ELSE <<>>])

\* a mutant of AddItem: a parent contribution to an existing row restarts its
\* quantity
AddItemParentRestarts(map, asset, qty, isComp, parentName) ==
    IF asset = NullAsset THEN map
    ELSE LET k == RowIndex(map, asset.id) IN
         IF k # 0
         THEN [map EXCEPT
                 ![k].totalQuantity = IF isComp THEN @ + qty ELSE qty,
                 ![k].contributingParents =
                     IF Truthy(parentName) THEN SetAdd(@, parentName) ELSE @]
         ELSE Append(map,
                [assetId |-> asset.id,
                 typeId |-> IF asset.type_id = "" THEN Dash
                            ELSE asset.type_id,
                 name |-> asset.name,
                 manufacturer |-> GetManufacturerName(asset),
                 totalQuantity |-> qty,
                 isComponent |-> isComp,
                 contributingParents |->
                     IF Truthy(parentName) THEN <<parentName>> ELSE <<>>])

\* addItem (222-247)
AddItem(map, asset, qty, isComp, parentName) ==
    IF asset = NullAsset THEN map
    ELSE LET k == RowIndex(map, asset.id) IN
         IF k # 0
         THEN [map EXCEPT
                 ![k].totalQuantity = @ + qty,
                 ![k].contributingParents =
                     IF Truthy(parentName) THEN SetAdd(@, parentName) ELSE @]
         ELSE Append(map,
                [assetId |-> asset.id,
                 typeId |-> IF asset.type_id = "" THEN Dash
                            ELSE asset.type_id,
                 name |-> asset.name,
                 manufacturer |-> GetManufacturerName(asset),
                 totalQuantity |-> qty,
                 isComponent |-> isComp,
                 contributingParents |->
                     IF Truthy(parentName) THEN <<parentName>> ELSE <<>>])

\* the nested Asset object a reference carries, null when it is missing
Resolve(lib, a) == IF a = NoAsset THEN NullAsset ELSE lib[a]

\* const parent = inst.asset_details; if (!parent) return  (250-251)
Participates(inst) == inst.asset_details # NoAsset

\* parent.components, undefined read as no components (255)
ComponentsOf(lib, inst) ==
    IF Participates(inst) THEN lib[inst.asset_details].components ELSE <<>>

\* a mutant of AutoIncluded: the can_add_per_instance flag is ignored
AutoIncludedIgnoringFlag(comp) == comp.child_asset # NoAsset

\* !comp.can_add_per_instance && comp.child_asset  (257)
AutoIncluded(comp) == ~comp.can_add_per_instance /\ comp.child_asset # NoAsset

\* a mutant of OptionalChild: a missing child resolves to the instance's first asset
OptionalChildDefaulted(opt) ==
    IF opt.asset_component = NoComponent \/ opt.asset_component.child_asset = NoAsset
    THEN 1
    ELSE opt.asset_component.child_asset

\* opt.asset_component?.child_asset  (265)
OptionalChild(opt) ==
    IF opt.asset_component = NoComponent THEN NoAsset
    ELSE opt.asset_component.child_asset

\* a.typeId.localeCompare(b.typeId): the collation rank of the type ids in use
CollationRank(t) ==
    CASE t = Dash -> 0
      [] t = "" -> 0
      [] t = "A-1" -> 1
      [] t = "B-2" -> 2

LocaleCompare(a, b) ==
    IF CollationRank(a) < CollationRank(b) THEN -1
    ELSE IF CollationRank(a) > CollationRank(b) THEN 1 ELSE 0

\* a mutant of CompareRows: the role is ignored, rows sort by type id only
CompareRowsByTypeOnly(a, b) == LocaleCompare(a.typeId, b.typeId)

\* the comparator of the final sort (273-278)
CompareRows(a, b) ==
    IF a.isComponent = b.isComponent
    THEN LocaleCompare(a.typeId, b.typeId)
    ELSE IF a.isComponent THEN 1 ELSE -1

\* Array.prototype.sort, which is stable: insert each row after the last row
\* that does not compare greater
RECURSIVE InsertRow(_, _)
InsertRow(sorted, row) ==
    IF sorted = <<>> THEN <<row>>
    ELSE LET last == sorted[Len(sorted)] IN
         IF CompareRows(last, row) <= 0 THEN Append(sorted, row)
         ELSE Append(InsertRow(SubSeq(sorted, 1, Len(sorted) - 1), row), last)

RECURSIVE SortRows(_)
SortRows(rows) ==
    IF rows = <<>> THEN <<>>
    ELSE InsertRow(SortRows(SubSeq(rows, 1, Len(rows) - 1)), rows[Len(rows)])

\* the next position of the instances.forEach walk at or after (ii, ph, jj):
\* empty component lists and skipped instances take no step of their own
RECURSIVE Position(_, _, _, _, _)
Position(lib, insts, ii, ph, jj) ==
    IF ii > Len(insts) THEN <<ii, "sort", 1>>
    ELSE IF ph = "parent" THEN <<ii, "parent", 1>>
    ELSE IF ph = "components"
         THEN IF jj <= Len(ComponentsOf(lib, insts[ii])) THEN <<ii, "components", jj>>
              ELSE Position(lib, insts, ii, "optional", 1)
    ELSE IF jj <= Len(insts[ii].optional_components) THEN <<ii, "optional", jj>>
         ELSE Position(lib, insts, ii + 1, "parent", 1)

MoveTo(pos) == i' = pos[1] /\ phase' = pos[2] /\ j' = pos[3]

\* 250-253: one instance reaches the walk; a missing asset ends its iteration
BomParent ==
    /\ phase = "parent"
    /\ LET inst == instances[i] IN
       IF ~Participates(inst)
       THEN /\ bomMap' = bomMap
            /\ MoveTo(Position(library, instances, i + 1, "parent", 1))
       ELSE /\ bomMap' = AddItem(bomMap, Resolve(library, inst.asset_details), 1, FALSE, Undefined)
            /\ MoveTo(Position(library, instances, i, "components", 1))
    /\ UNCHANGED <<loadVars, library, instances, topCount, aggregatedBOM, merchVars>>

\* a mutant of BomComponent: the first component definition of the child is
\* added with it
BomComponentExpandingChild ==
    /\ phase = "components"
    /\ LET parent == library[instances[i].asset_details]
           comp == parent.components[j]
           child == Resolve(library, comp.child_asset)
           withChild == AddItem(bomMap, child, comp.quantity_required, TRUE, parent.name)
       IN  bomMap' = IF ~AutoIncluded(comp) THEN bomMap
                     ELSE IF child.components # <<>> /\ AutoIncluded(child.components[1])
                          THEN AddItem(withChild,
                                       Resolve(library, child.components[1].child_asset),
                                       child.components[1].quantity_required, TRUE,
                                       child.name)
                          ELSE withChild
    /\ MoveTo(Position(library, instances, i, "components", j + 1))
    /\ UNCHANGED <<loadVars, library, instances, topCount, aggregatedBOM, merchVars>>

\* 256-260: one iteration of parent.components.forEach
BomComponent ==
    /\ phase = "components"
    /\ LET parent == library[instances[i].asset_details]
           comp == parent.components[j]
       IN  bomMap' = IF AutoIncluded(comp)
                     THEN AddItem(bomMap, Resolve(library, comp.child_asset),
                                  comp.quantity_required, TRUE, parent.name)
                     ELSE bomMap
    /\ MoveTo(Position(library, instances, i, "components", j + 1))
    /\ UNCHANGED <<loadVars, library, instances, topCount, aggregatedBOM, merchVars>>

\* 264-269: one iteration of inst.optional_components.forEach
BomOptional ==
    /\ phase = "optional"
    /\ LET parent == library[instances[i].asset_details]
           opt == instances[i].optional_components[j]
           child == OptionalChild(opt)
       IN  bomMap' = IF child # NoAsset
                     THEN AddItem(bomMap, Resolve(library, child), opt.quantity,
                                  TRUE, parent.name)
                     ELSE bomMap
    /\ MoveTo(Position(library, instances, i, "optional", j + 1))
    /\ UNCHANGED <<loadVars, library, instances, topCount, aggregatedBOM, merchVars>>

\* a mutant of BomSort: the run empties the collection it has walked
BomSortEmptyingInstances ==
    /\ phase = "sort"
    /\ aggregatedBOM' = SortRows(bomMap)
    /\ phase' = "done"
    /\ instances' = <<>>
    /\ UNCHANGED <<loadVars, library, topCount, bomMap, i, j, merchVars>>

\* 273-278: the run returns the sorted rows
BomSort ==
    /\ phase = "sort"
    /\ aggregatedBOM' = SortRows(bomMap)
    /\ phase' = "done"
    /\ UNCHANGED <<loadVars, library, instances, topCount, bomMap, i, j, merchVars>>

----------------------------------------------------------------------------
(* aggregatedBOM as one function of the instance collection *)

RECURSIVE AddComponents(_, _, _, _)
AddComponents(lib, map, parent, comps) ==
    IF comps = <<>> THEN map
    ELSE AddComponents(lib,
            IF AutoIncluded(Head(comps))
            THEN AddItem(map, Resolve(lib, Head(comps).child_asset),
                         Head(comps).quantity_required, TRUE, parent.name)
            ELSE map,
            parent, Tail(comps))

RECURSIVE AddOptionals(_, _, _, _)
AddOptionals(lib, map, parent, opts) ==
    IF opts = <<>> THEN map
    ELSE AddOptionals(lib,
            IF OptionalChild(Head(opts)) # NoAsset
            THEN AddItem(map, Resolve(lib, OptionalChild(Head(opts))),
                         Head(opts).quantity, TRUE, parent.name)
            ELSE map,
            parent, Tail(opts))

\* the body of instances.forEach (249-271)
AddInstance(lib, map, inst) ==
    IF ~Participates(inst) THEN map
    ELSE LET parent == lib[inst.asset_details] IN
         AddOptionals(lib,
            AddComponents(lib, AddItem(map, parent, 1, FALSE, Undefined),
                          parent, parent.components),
            parent, inst.optional_components)

RECURSIVE BomMapOf(_, _)
BomMapOf(lib, insts) ==
    IF insts = <<>> THEN <<>>
    ELSE AddInstance(lib, BomMapOf(lib, SubSeq(insts, 1, Len(insts) - 1)),
                     insts[Len(insts)])

BomOf(lib, insts) == SortRows(BomMapOf(lib, insts))

----------------------------------------------------------------------------
(* The bill of materials of every small snapshot *)

BomAssetIds == {1, 2}
DefaultTypeIds == (1 :> "A-1") @@ (2 :> "B-2") @@ (3 :> "")

BomLibraries ==
    {[a \in BomAssetIds |-> AssetRecord(a, DefaultTypeIds[a], NullWidth, cs[a])] :
        cs \in [BomAssetIds -> SeqsUpTo(ComponentDefs(BomAssetIds), 1)]}

\* an instance without an asset is given the optional components that would count
BomInstances ==
    {InstanceRecord(a, opts, Absent) :
        a \in BomAssetIds, opts \in SeqsUpTo(OptionalComponents(BomAssetIds), 1)}
    \cup {InstanceRecord(NoAsset, opts, Absent) :
            opts \in {<<>>} \cup {<<[asset_component |-> [child_asset |-> c],
                                     quantity |-> 1]>> : c \in BomAssetIds}}

\* the view outside of a load: the aggregators run on a collection that is there
NoSnapshot == [null |-> TRUE]
NoProject == [null |-> TRUE]

LoadIdle ==
    /\ routeId = 1
    /\ mounted = TRUE
    /\ snapshot = NoSnapshot
    /\ project = NoProject
    /\ loading = FALSE
    /\ loads = <<>>

MerchIdle ==
    /\ topCount = 5
    /\ categoryMap = <<>>
    /\ totalLF = 0
    /\ mphase = "idle"
    /\ mi = 1
    /\ donutData = <<>>
    /\ totalMerchandisableLF = <<>>

BomStart ==
    /\ bomMap = <<>>
    /\ aggregatedBOM = <<>>
    /\ LET pos == Position(library, instances, 1, "parent", 1)
       IN  i = pos[1] /\ phase = pos[2] /\ j = pos[3]

InitBOM ==
    /\ library \in BomLibraries
    /\ instances \in SeqsUpTo(BomInstances, MaxInstances)
    /\ BomStart
    /\ MerchIdle
    /\ LoadIdle

NextBOM == BomParent \/ BomComponent \/ BomOptional \/ BomSort

SpecBOM == InitBOM /\ [][NextBOM]_vars

----------------------------------------------------------------------------
(* The sort of the bill of materials: three assets of every type id *)

SortLibraries ==
    {[a \in AssetIds |->
        AssetRecord(a, ts[a], NullWidth, IF a = 1 THEN cs ELSE <<>>)] :
        ts \in [AssetIds -> TypeIds],
        cs \in {<<>>} \cup {<<[child_asset |-> c, quantity_required |-> 1,
                               can_add_per_instance |-> FALSE]>> : c \in AssetIds}}

SortInstances ==
    {InstanceRecord(a, opts, Absent) :
        a \in AssetIds,
        opts \in {<<>>} \cup {<<[asset_component |-> [child_asset |-> c],
                                 quantity |-> 1]>> : c \in AssetIds}}

InitSort ==
    /\ library \in SortLibraries
    /\ instances \in SeqsUpTo(SortInstances, MaxInstances)
    /\ BomStart
    /\ MerchIdle
    /\ LoadIdle

SpecSort == InitSort /\ [][NextBOM]_vars

----------------------------------------------------------------------------
(* What the source data says a row must hold *)

Rows(rows) == {rows[k] : k \in 1..Len(rows)}

\* the instances that take part in the aggregation
Participating == {n \in 1..Len(instances) : instances[n].asset_details # NoAsset}

ParentOf(n) == library[instances[n].asset_details]

\* the component definitions of instance n's asset that are included with it
RequiredDefs(n, id) ==
    {k \in 1..Len(ParentOf(n).components) :
        /\ ~ParentOf(n).components[k].can_add_per_instance
        /\ ParentOf(n).components[k].child_asset = id}

\* the optional component instances of instance n that resolve to id
OptionalRefs(n, id) ==
    {k \in 1..Len(instances[n].optional_components) :
        LET opt == instances[n].optional_components[k] IN
        /\ opt.asset_component # NoComponent
        /\ opt.asset_component.child_asset = id}

RECURSIVE SumOver(_, _)
SumOver(f, S) ==
    IF S = {} THEN 0
    ELSE LET x == CHOOSE y \in S : TRUE IN f[x] + SumOver(f, S \ {x})

ParentCount(id) ==
    Cardinality({n \in Participating : instances[n].asset_details = id})

RequiredTotal(id) ==
    SumOver([n \in Participating |->
                SumOver([k \in RequiredDefs(n, id) |->
                            ParentOf(n).components[k].quantity_required],
                        RequiredDefs(n, id))],
            Participating)

OptionalTotal(id) ==
    SumOver([n \in Participating |->
                SumOver([k \in OptionalRefs(n, id) |->
                            instances[n].optional_components[k].quantity],
                        OptionalRefs(n, id))],
            Participating)

ExpectedQuantity(id) == ParentCount(id) + RequiredTotal(id) + OptionalTotal(id)

\* the names of the parents whose instances contributed a component quantity to id
ContributorNames(id) ==
    {ParentOf(n).name : n \in {m \in Participating :
        RequiredDefs(m, id) # {} \/ OptionalRefs(m, id) # {}}}

NoRepeat(seq) == \A p, q \in 1..Len(seq) : seq[p] = seq[q] => p = q

----------------------------------------------------------------------------
(* C1: no two rows of the bill of materials carry the same asset identifier,
   after every addItem step and in the list the run returns *)
C1_NoDuplicateAssetIds ==
    /\ \A p, q \in 1..Len(bomMap) : bomMap[p].assetId = bomMap[q].assetId => p = q
    /\ \A p, q \in 1..Len(aggregatedBOM) :
          aggregatedBOM[p].assetId = aggregatedBOM[q].assetId => p = q

\* two rows, one of them merged from three or more contributions
C1_Witness ==
    /\ phase = "done"
    /\ Len(aggregatedBOM) = 2
    /\ \E k \in 1..Len(aggregatedBOM) : aggregatedBOM[k].totalQuantity >= 3

(* C2: an asset that is the asset of a top-level instance has a row whose
   role is parent in the final result *)
C2_EverParentIsParent ==
    phase = "done" =>
        \A row \in Rows(aggregatedBOM) :
            ParentCount(row.assetId) > 0 => ~row.isComponent

(* C3: the total quantity of every row is the number of instances of the asset
   plus the required quantities of the included component definitions, once
   per instance of their parent, plus the quantities of the optional component
   instances that resolve to it *)
C3_ExactTotals ==
    phase = "done" =>
        /\ \A row \in Rows(aggregatedBOM) :
              row.totalQuantity = ExpectedQuantity(row.assetId)
        /\ \A id \in DOMAIN library :
              ExpectedQuantity(id) > 0 => \E row \in Rows(aggregatedBOM) : row.assetId = id

\* one instance of P with required C (quantity 2) and an optional C (quantity 1):
\* P = 1 and C = 3
C3_Witness ==
    /\ phase = "done"
    /\ Len(instances) = 1
    /\ instances[1].asset_details = 1
    /\ library[1].components =
          <<[child_asset |-> 2, quantity_required |-> 2, can_add_per_instance |-> FALSE]>>
    /\ instances[1].optional_components =
          <<[asset_component |-> [child_asset |-> 2], quantity |-> 1]>>
    /\ \E row \in Rows(aggregatedBOM) : row.assetId = 1 /\ row.totalQuantity = 1
    /\ \E row \in Rows(aggregatedBOM) : row.assetId = 2 /\ row.totalQuantity = 3

\* the total quantity the map holds for an asset id, 0 when it has no row
QuantityIn(map, id) ==
    IF RowIndex(map, id) = 0 THEN 0 ELSE map[RowIndex(map, id)].totalQuantity

(* C4: a component definition that can be added per instance adds neither a row
   nor a quantity when the walk passes it; one that cannot, with a child, adds
   exactly its required quantity to the child's row, once per instance of its
   parent, and nothing to any other row *)
C4_StepOfComponentDefinition ==
    phase = "components" =>
        LET comp == ParentOf(i).components[j] IN
        IF comp.can_add_per_instance
        THEN bomMap' = bomMap
        ELSE comp.child_asset # NoAsset =>
                \A id \in DOMAIN library :
                    QuantityIn(bomMap', id) =
                        QuantityIn(bomMap, id) +
                        (IF id = comp.child_asset THEN comp.quantity_required ELSE 0)

C4_PerInstanceFlag == [][C4_StepOfComponentDefinition]_vars

\* C is listed on P as a per-instance component, an instance of P was
\* aggregated, and C has no row
C4_Witness ==
    /\ phase = "done"
    /\ \E n \in Participating :
          \E k \in 1..Len(ParentOf(n).components) :
              /\ ParentOf(n).components[k].can_add_per_instance
              /\ ParentOf(n).components[k].child_asset # NoAsset
              /\ QuantityIn(aggregatedBOM, ParentOf(n).components[k].child_asset) = 0

(* C5: the contributing parents of a component row are the names of the parents
   whose instances contributed a required or optional component quantity to
   it, each present once *)
C5_ContributingParents ==
    phase = "done" =>
        \A row \in Rows(aggregatedBOM) :
            row.isComponent =>
                /\ Rows(row.contributingParents) = ContributorNames(row.assetId)
                /\ NoRepeat(row.contributingParents)

\* a component row two parents contributed to, one of them more than once
C5_Witness ==
    /\ phase = "done"
    /\ \E row \in Rows(aggregatedBOM) :
          /\ row.isComponent
          /\ Len(row.contributingParents) = 2
          /\ row.totalQuantity >= 3

(* C6: every row whose role is parent has an empty contributing-parent set *)
C6_ParentRowsHaveNoContributors ==
    \A row \in Rows(bomMap) \cup Rows(aggregatedBOM) :
        ~row.isComponent => row.contributingParents = <<>>

(* C7: in the returned list every parent row precedes every component row, and
   within each role the rows are in non-decreasing order of type identifier *)
C7_SortedByRoleThenType ==
    phase = "done" =>
        \A p, q \in 1..Len(aggregatedBOM) :
            p < q =>
                /\ ~(aggregatedBOM[p].isComponent /\ ~aggregatedBOM[q].isComponent)
                /\ aggregatedBOM[p].isComponent = aggregatedBOM[q].isComponent =>
                      LocaleCompare(aggregatedBOM[p].typeId, aggregatedBOM[q].typeId) <= 0

\* three rows of both roles that the map held in another order
C7_Witness ==
    /\ phase = "done"
    /\ Len(aggregatedBOM) = 3
    /\ aggregatedBOM # bomMap
    /\ \E row \in Rows(aggregatedBOM) : row.isComponent
    /\ \E row \in Rows(aggregatedBOM) : ~row.isComponent
    /\ aggregatedBOM[1].typeId # aggregatedBOM[2].typeId

\* the collection and the library without the records the walk skips
GoodOptional(opt) ==
    opt.asset_component # NoComponent /\ opt.asset_component.child_asset # NoAsset

GoodDefinition(comp) == comp.child_asset # NoAsset

CleanInstances(insts) ==
    LET kept == SelectSeq(insts, LAMBDA inst : inst.asset_details # NoAsset)
    IN  [n \in 1..Len(kept) |->
            [kept[n] EXCEPT !.optional_components = SelectSeq(@, GoodOptional)]]

CleanLibrary(lib) ==
    [a \in DOMAIN lib |-> [lib[a] EXCEPT !.components = SelectSeq(@, GoodDefinition)]]

(* C8: the aggregation always returns; an empty collection gives an empty
   result; instances without an asset, definitions and optional components
   without a child add nothing, and the result is the one the collection
   without those records gives *)
C8_BadRecordsAreSkipped ==
    /\ phase # "done" => ENABLED NextBOM
    /\ phase = "done" =>
          /\ instances = <<>> => aggregatedBOM = <<>>
          /\ aggregatedBOM = BomOf(CleanLibrary(library), CleanInstances(instances))

\* an instance without an asset that carries a good optional component, and an
\* instance of P with a definition and an optional component without a child:
\* the result is the one row of P
C8_Witness ==
    /\ phase = "done"
    /\ Len(instances) = 2
    /\ instances[1].asset_details = NoAsset
    /\ \E k \in 1..Len(instances[1].optional_components) :
          GoodOptional(instances[1].optional_components[k])
    /\ instances[2].asset_details # NoAsset
    /\ \E k \in 1..Len(ParentOf(2).components) : ~GoodDefinition(ParentOf(2).components[k])
    /\ \E k \in 1..Len(instances[2].optional_components) :
          ~GoodOptional(instances[2].optional_components[k])
    /\ Len(aggregatedBOM) = 1
    /\ aggregatedBOM[1].assetId = instances[2].asset_details
    /\ aggregatedBOM[1].totalQuantity = 1

----------------------------------------------------------------------------
(* donutData: SnapshotDetailPage.tsx 173-216.  Strings are sequences of
   one-character strings.  Footage is exact: a value v stands for
   v / FeetDenominator feet. *)

\* String.prototype.trim
RECURSIVE TrimLeft(_)
TrimLeft(s) == IF s # <<>> /\ Head(s) = " " THEN TrimLeft(Tail(s)) ELSE s

RECURSIVE TrimRight(_)
TrimRight(s) ==
    IF s # <<>> /\ s[Len(s)] = " " THEN TrimRight(SubSeq(s, 1, Len(s) - 1)) ELSE s

Trim(s) == TrimRight(TrimLeft(s))

\* catString.split("//"): cut at every "//", scanning from the left
RECURSIVE SplitFrom(_, _)
SplitFrom(s, token) ==
    IF s = <<>> THEN <<token>>
    ELSE IF Len(s) >= 2 /\ s[1] = "/" /\ s[2] = "/"
         THEN <<token>> \o SplitFrom(SubSeq(s, 3, Len(s)), <<>>)
         ELSE SplitFrom(Tail(s), Append(token, Head(s)))

Split(s) == SplitFrom(s, <<>>)

\* a mutant of CatString: an absent or empty tag is read as the tag "U"
CatStringUnlabeled(inst) ==
    IF inst.merch_category = Absent \/ inst.merch_category = <<>>
    THEN <<"U">>
    ELSE inst.merch_category

\* (inst.custom_fields?.merch_category as string) || ""  (179)
CatString(inst) ==
    IF inst.merch_category = Absent THEN <<>> ELSE inst.merch_category

\* catString.split("//").map(s => s.trim()).filter(Boolean)  (182)
ParseCategories(catString) ==
    LET tokens == Split(catString)
        trimmed == [k \in 1..Len(tokens) |-> Trim(tokens[k])]
    IN  SelectSeq(trimmed, LAMBDA t : t # <<>>)

\* a mutant of WidthMM: a width that is no number counts as one millimetre
WidthMMAtLeastOne(lib, inst) ==
    LET asset == Resolve(lib, inst.asset_details) IN
    IF asset = NullAsset THEN 0
    ELSE IF DOMAIN asset.overall_width = {"number"} THEN asset.overall_width.number
    ELSE 1

\* Number(inst.asset_details?.overall_width) || 0  (178)
WidthMM(lib, inst) ==
    LET asset == Resolve(lib, inst.asset_details) IN
    IF asset = NullAsset THEN 0
    ELSE IF DOMAIN asset.overall_width = {"number"} THEN asset.overall_width.number
    ELSE 0

\* name: "Other Merchandising"  (208)
OtherName == <<"O", "t", "h", "e", "r", " ", "M", "e", "r", "c", "h", "a", "n", "d", "i", "s", "i", "n", "g">>

\* the tags of the model; the last one lists the text of line 208 as a real
\* category name
MerchTags ==
    { Absent,
      <<>>,
      <<" ">>,
      <<"L">>,
      <<" ", "L", " ">>,
      <<"L", " ", "/", "/", " ", "H">>,
      <<"L", "/", "/", "L">>,
      <<"/", "/">>,
      <<"L", "/", "/", "/", "H">>,
      <<"L", "/", "/", "H", "/", "/", "E">>,
      <<"D", "/", "/", "F", "/", "/", "G">>,
      OtherName \o <<"/", "/", "H", "/", "/", "E">> }

RECURSIVE MaxOf(_)
MaxOf(S) ==
    IF S = {} THEN 0
    ELSE LET x == CHOOSE y \in S : TRUE
             m == MaxOf(S \ {x})
         IN  IF x > m THEN x ELSE m

RECURSIVE Gcd(_, _)
Gcd(a, b) == IF b = 0 THEN a ELSE Gcd(b, a % b)

RECURSIVE LcmUpTo(_)
LcmUpTo(n) == IF n <= 1 THEN 1 ELSE (LcmUpTo(n - 1) * n) \div Gcd(LcmUpTo(n - 1), n)

\* the most category names one tag of the model parses to
MaxCategories == MaxOf({Len(ParseCategories(CatString([merch_category |-> t]))) : t \in MerchTags})

\* every share (widthMM / k) / 304.8 is a whole number of 1 / FeetDenominator feet
ShareScale == LcmUpTo(MaxCategories)
TenthsOfMmPerFoot == 3048
FeetDenominator == TenthsOfMmPerFoot * ShareScale

\* a mutant of LfShare: the width is not divided among the categories
LfShareUndivided(widthMM, k) == widthMM * ShareScale * 10

\* const lfShare = (widthMM / categories.length) / 304.8  (183)
LfShare(widthMM, k) == ((widthMM * ShareScale) \div k) * 10

\* categoryMap[cat]: the position of the key, 0 when there is none
KeyIndex(map, cat) ==
    IF \E k \in 1..Len(map) : map[k].key = cat
    THEN CHOOSE k \in 1..Len(map) : map[k].key = cat
    ELSE 0

\* categoryMap[cat] || 0
ValueOf(map, cat) == IF KeyIndex(map, cat) = 0 THEN 0 ELSE map[KeyIndex(map, cat)].val

\* a mutant of AddShare: the share replaces what the category held
AddShareOverwrite(map, cat, lfShare) ==
    IF KeyIndex(map, cat) = 0
    THEN Append(map, [key |-> cat, val |-> lfShare])
    ELSE [map EXCEPT ![KeyIndex(map, cat)].val = lfShare]

\* categoryMap[cat] = (categoryMap[cat] || 0) + lfShare  (186)
AddShare(map, cat, lfShare) ==
    IF KeyIndex(map, cat) = 0
    THEN Append(map, [key |-> cat, val |-> lfShare])
    ELSE [map EXCEPT ![KeyIndex(map, cat)].val = @ + lfShare]

\* categories.forEach(...)  (185-188), the category map
RECURSIVE AddShares(_, _, _)
AddShares(map, categories, lfShare) ==
    IF categories = <<>> THEN map
    ELSE AddShares(AddShare(map, Head(categories), lfShare), Tail(categories), lfShare)

\* a mutant of MerchInstance: the share is added to the total once per instance
MerchInstanceCountingOnce ==
    /\ mphase = "instances"
    /\ LET inst == instances[mi]
           widthMM == WidthMM(library, inst)
           catString == CatString(inst)
           categories == ParseCategories(catString)
       IN  IF Trim(catString) = <<>> \/ categories = <<>>
           THEN UNCHANGED <<categoryMap, totalLF>>
           ELSE /\ categoryMap' =
                      AddShares(categoryMap, categories, LfShare(widthMM, Len(categories)))
                /\ totalLF' = totalLF + LfShare(widthMM, Len(categories))
    /\ mi' = mi + 1
    /\ mphase' = IF mi = Len(instances) THEN "rows" ELSE "instances"
    /\ UNCHANGED <<loadVars, library, instances, topCount, bomVars, donutData, totalMerchandisableLF>>

\* one iteration of instances.forEach (177-189)
MerchInstance ==
    /\ mphase = "instances"
    /\ LET inst == instances[mi]
           widthMM == WidthMM(library, inst)
           catString == CatString(inst)
           categories == ParseCategories(catString)
       IN  IF Trim(catString) = <<>> \/ categories = <<>>
           THEN UNCHANGED <<categoryMap, totalLF>>
           ELSE /\ categoryMap' =
                      AddShares(categoryMap, categories, LfShare(widthMM, Len(categories)))
                /\ totalLF' = totalLF + Len(categories) * LfShare(widthMM, Len(categories))
    /\ mi' = mi + 1
    /\ mphase' = IF mi = Len(instances) THEN "rows" ELSE "instances"
    /\ UNCHANGED <<loadVars, library, instances, topCount, bomVars, donutData, totalMerchandisableLF>>

\* cat.replace(/\s*\/\/\s*/g, ", ")  (195)
RECURSIVE ReplaceDelimiter(_)
ReplaceDelimiter(s) ==
    IF s = <<>> THEN <<>>
    ELSE LET t == TrimLeft(s) IN
         IF Len(t) >= 2 /\ t[1] = "/" /\ t[2] = "/"
         THEN <<",", " ">> \o ReplaceDelimiter(TrimLeft(SubSeq(t, 3, Len(t))))
         ELSE <<Head(s)>> \o ReplaceDelimiter(Tail(s))

\* a mutant of ToFixed2: the value is cut after two decimals
ToFixed2Truncated(val) == (100 * val) \div FeetDenominator

\* Number(val.toFixed(2)): the value in hundredths of a foot, a tie rounded up  (196)
ToFixed2(val) == (200 * val + FeetDenominator) \div (2 * FeetDenominator)

\* a mutant of Percentage: the percentage is cut after one decimal
PercentageTruncated(val, total) ==
    IF total > 0 THEN (1000 * val) \div total ELSE 0

\* a mutant of Percentage: the percentage is cut to a whole number
PercentageWhole(val, total) ==
    IF total > 0 THEN ((100 * val) \div total) * 10 ELSE 0

\* totalLF > 0 ? Number(((val / totalLF) * 100).toFixed(1)) : 0, in tenths of a
\* percent  (197)
Percentage(val, total) ==
    IF total > 0 THEN (2000 * val + total) \div (2 * total) ELSE 0

\* the same for the sum of rounded values, which is in hundredths of a foot  (211)
OtherPercentage(hundredths, total) ==
    IF total > 0
    THEN (20 * hundredths * FeetDenominator + total) \div (2 * total)
    ELSE 0

\* one ChartItem per key of categoryMap, in key order  (191-199)
ChartItems(map, total) ==
    [k \in 1..Len(map) |->
        [name |-> ReplaceDelimiter(map[k].key),
         value |-> ToFixed2(map[k].val),
         percentage |-> Percentage(map[k].val, total)]]

\* a mutant of InsertItem: a row moves ahead of the rows of equal value
RECURSIVE InsertItemAheadOfTies(_, _)
InsertItemAheadOfTies(sorted, item) ==
    IF sorted = <<>> THEN <<item>>
    ELSE LET last == sorted[Len(sorted)] IN
         IF item.value - last.value < 0 THEN Append(sorted, item)
         ELSE Append(InsertItemAheadOfTies(SubSeq(sorted, 1, Len(sorted) - 1), item), last)

\* .sort((a, b) => b.value - a.value), stable  (200)
RECURSIVE InsertItem(_, _)
InsertItem(sorted, item) ==
    IF sorted = <<>> THEN <<item>>
    ELSE LET last == sorted[Len(sorted)] IN
         IF item.value - last.value <= 0 THEN Append(sorted, item)
         ELSE Append(InsertItem(SubSeq(sorted, 1, Len(sorted) - 1), item), last)

RECURSIVE SortItems(_)
SortItems(items) ==
    IF items = <<>> THEN <<>>
    ELSE InsertItem(SortItems(SubSeq(items, 1, Len(items) - 1)), items[Len(items)])

Min(a, b) == IF a < b THEN a ELSE b

\* a mutant of DonutSet: the rows ranked beyond the cutoff are dropped
DonutSetDroppingTail(sortedCategories, n, total) ==
    SubSeq(sortedCategories, 1, Min(n, Len(sortedCategories)))

\* a mutant of DonutSet: the synthetic row is added whatever is left over
DonutSetAlwaysOther(sortedCategories, n, total) ==
    LET topSlice == SubSeq(sortedCategories, 1, Min(n, Len(sortedCategories)))
        others == SubSeq(sortedCategories, n + 1, Len(sortedCategories))
        otherValue == SumSeq([k \in 1..Len(others) |-> others[k].value])
    IN  Append(topSlice,
               [name |-> OtherName,
                value |-> otherValue,
                percentage |-> OtherPercentage(otherValue, total)])

\* topSlice, others and the synthetic last row  (202-213)
DonutSet(sortedCategories, n, total) ==
    LET topSlice == SubSeq(sortedCategories, 1, Min(n, Len(sortedCategories)))
        others == SubSeq(sortedCategories, n + 1, Len(sortedCategories))
        otherValue == SumSeq([k \in 1..Len(others) |-> others[k].value])
    IN  IF Len(others) > 0
        THEN Append(topSlice,
                    [name |-> OtherName,
                     value |-> otherValue,
                     percentage |-> OtherPercentage(otherValue, total)])
        ELSE topSlice

\* the decimal digits of a natural number
Digit(d) == <<"0", "1", "2", "3", "4", "5", "6", "7", "8", "9">>[d + 1]

RECURSIVE Digits(_)
Digits(n) == IF n < 10 THEN <<Digit(n)>> ELSE Append(Digits(n \div 10), Digit(n % 10))

\* a mutant of ToFixed1: the total is formatted without its decimal
ToFixed1Whole(total) ==
    LET tenths == (20 * total + FeetDenominator) \div (2 * FeetDenominator)
    IN  Digits(tenths \div 10)

\* totalLF.toFixed(1): the total rounded to a tenth of a foot, a tie rounded up  (215)
ToFixed1(total) ==
    LET tenths == (20 * total + FeetDenominator) \div (2 * FeetDenominator)
    IN  Digits(tenths \div 10) \o <<".">> \o <<Digit(tenths % 10)>>

\* 191-215: the rows are built, ranked and capped, and the run returns
MerchRows ==
    /\ mphase = "rows"
    /\ donutData' = DonutSet(SortItems(ChartItems(categoryMap, totalLF)), topCount, totalLF)
    /\ totalMerchandisableLF' = ToFixed1(totalLF)
    /\ mphase' = "done"
    /\ UNCHANGED <<loadVars, library, instances, topCount, bomVars, categoryMap, totalLF, mi>>

----------------------------------------------------------------------------
(* The merchandising allocation of every small snapshot *)

TopRanges == {5, 10, 25}

MerchAssetIds == {1, 2}

MerchWidths ==
    (1 :> {NumberWidth(600), NumberWidth(10)})
    @@ (2 :> {NumberWidth(300), NullWidth, TextWidth, AbsentWidth})

MerchLibraries ==
    {[a \in MerchAssetIds |-> AssetRecord(a, DefaultTypeIds[a], ws[a], <<>>)] :
        ws \in {f \in [MerchAssetIds -> UNION {MerchWidths[a] : a \in MerchAssetIds}] :
                  \A a \in MerchAssetIds : f[a] \in MerchWidths[a]}}

\* an instance without an asset is given the tags that would count
MerchInstances ==
    {InstanceRecord(a, <<>>, t) : a \in MerchAssetIds, t \in MerchTags}
    \cup {InstanceRecord(NoAsset, <<>>, t) :
            t \in {<<"L">>, <<"L", " ", "/", "/", " ", "H">>}}

BomIdle ==
    /\ bomMap = <<>>
    /\ aggregatedBOM = <<>>
    /\ phase = "idle"
    /\ i = 1
    /\ j = 1

InitMerch ==
    /\ library \in MerchLibraries
    /\ instances \in SeqsUpTo(MerchInstances, MaxInstances)
    /\ topCount \in TopRanges
    /\ categoryMap = <<>>
    /\ totalLF = 0
    /\ mphase = IF instances = <<>> THEN "rows" ELSE "instances"
    /\ mi = 1
    /\ donutData = <<>>
    /\ totalMerchandisableLF = <<>>
    /\ BomIdle
    /\ LoadIdle

NextMerch == MerchInstance \/ MerchRows

SpecMerch == InitMerch /\ [][NextMerch]_vars

----------------------------------------------------------------------------
\* a tag that is absent, empty or made of white space only
Blank(tag) == tag = Absent \/ \A k \in 1..Len(tag) : tag[k] = " "

\* how many of the parsed names are cat
Occurrences(categories, cat) ==
    Cardinality({k \in 1..Len(categories) : categories[k] = cat})

\* width / 304.8 of the instance, in 1 / FeetDenominator feet
FullFootage(inst) == WidthMM(library, inst) * ShareScale * 10

Keys(map) == {map[k].key : k \in 1..Len(map)}

(* C9: an instance whose tag is absent, empty or white space only adds nothing
   to any category total or to the grand total and creates no category *)
C9_StepOfBlankTag ==
    (mphase = "instances" /\ Blank(instances[mi].merch_category)) =>
        categoryMap' = categoryMap /\ totalLF' = totalLF

C9_BlankTagAddsNothing == [][C9_StepOfBlankTag]_vars

\* a collection of blank-tagged instances of a wide asset only: no rows, total 0.0
C9_Witness ==
    /\ mphase = "done"
    /\ Len(instances) = 2
    /\ instances[1].merch_category = <<" ">>
    /\ instances[2].merch_category = Absent
    /\ \A n \in 1..2 : WidthMM(library, instances[n]) = 600
    /\ donutData = <<>>
    /\ totalMerchandisableLF = <<"0", ".", "0">>

(* C10: an instance whose tag parses to k names adds (width / 304.8) / k to the
   running total of each of them, once per time the name is listed, and to no
   other category; a tag of two different names gives each exactly half of
   the instance's footage *)
C10_StepOfTaggedInstance ==
    mphase = "instances" =>
        LET inst == instances[mi]
            categories == ParseCategories(CatString(inst))
            k == Len(categories)
        IN  k >= 1 =>
              /\ \A cat \in Keys(categoryMap') :
                    k * (ValueOf(categoryMap', cat) - ValueOf(categoryMap, cat)) =
                        Occurrences(categories, cat) * FullFootage(inst)
              /\ Keys(categoryMap') = Keys(categoryMap) \cup Rows(categories)
              /\ (k = 2 /\ categories[1] # categories[2]) =>
                    \A n \in 1..2 :
                        2 * (ValueOf(categoryMap', categories[n])
                                - ValueOf(categoryMap, categories[n])) = FullFootage(inst)

C10_EvenSplit == [][C10_StepOfTaggedInstance]_vars

\* "L // H" on an instance 600 mm wide: L and H hold half of 600 / 304.8 each
C10_Witness ==
    /\ mphase = "done"
    /\ Len(instances) = 1
    /\ instances[1].merch_category = <<"L", " ", "/", "/", " ", "H">>
    /\ WidthMM(library, instances[1]) = 600
    /\ Len(categoryMap) = 2
    /\ categoryMap[1].key = <<"L">> /\ categoryMap[2].key = <<"H">>
    /\ 2 * categoryMap[1].val = FullFootage(instances[1])
    /\ 2 * categoryMap[2].val = FullFootage(instances[1])
    /\ categoryMap[1].val > 0

----------------------------------------------------------------------------
Abs(x) == IF x < 0 THEN 0 - x ELSE x

\* the accumulators of categoryMap, in key order
Accumulators == [k \in 1..Len(categoryMap) |-> categoryMap[k].val]

\* the rows before they are ranked and capped
UncappedRows == ChartItems(categoryMap, totalLF)

\* the sum of the two-decimal values of the rows, in hundredths of a foot
SumOfValues(rows) == SumSeq([k \in 1..Len(rows) |-> rows[k].value])

(* C11: the accumulators of the categories sum exactly to the grand total, at
   every point of the run; once the rows are built, each two-decimal value is
   within 0.01 of its accumulator, so the values of the rows before the
   top-N cap sum to the grand total within 0.01 per category *)
C11_ValuesSumToTotal ==
    /\ SumSeq(Accumulators) = totalLF
    /\ mphase \in {"rows", "done"} =>
          /\ \A k \in 1..Len(categoryMap) :
                Abs(UncappedRows[k].value * FeetDenominator - 100 * categoryMap[k].val)
                    <= FeetDenominator
          /\ Abs(SumOfValues(UncappedRows) * FeetDenominator - 100 * totalLF)
                <= Len(categoryMap) * FeetDenominator

\* five categories, one of them fed by both instances, whose rounded values do
\* not add up to the total
C11_Witness ==
    /\ mphase = "done"
    /\ Len(instances) = 2
    /\ Len(categoryMap) = 5
    /\ \E k \in 1..5 : categoryMap[k].val > LfShare(WidthMM(library, instances[1]), 3)
    /\ totalLF > 0
    /\ SumSeq(Accumulators) = totalLF
    /\ SumOfValues(UncappedRows) * FeetDenominator # 100 * totalLF

----------------------------------------------------------------------------
\* the two-decimal value of a category, in hundredths of a foot
Rounded == [cat \in Keys(categoryMap) |-> ToFixed2(ValueOf(categoryMap, cat))]

\* the labels of the first n rows returned
TopLabels(n) == {donutData[k].name : k \in 1..n}

(* C12: when there are more categories than the cutoff N, the rows returned are
   N + 1: N different categories with their two-decimal values, none of the
   others valued higher than any of them, then one last row named
   "Other Merchandising" whose value is the sum of the values of the others;
   with N + 1 categories that value is the smallest value of all *)
C12_TopNThenOther ==
    (mphase = "done" /\ Len(categoryMap) > topCount) =>
        LET others == Keys(categoryMap) \ TopLabels(topCount) IN
        /\ Len(donutData) = topCount + 1
        /\ TopLabels(topCount) \subseteq Keys(categoryMap)
        /\ Cardinality(TopLabels(topCount)) = topCount
        /\ \A k \in 1..topCount :
              /\ donutData[k].value = Rounded[donutData[k].name]
              /\ \A cat \in others : Rounded[cat] <= donutData[k].value
        /\ donutData[topCount + 1].name = OtherName
        /\ donutData[topCount + 1].value = SumOver(Rounded, others)
        /\ Len(categoryMap) = topCount + 1 =>
              \A cat \in Keys(categoryMap) : donutData[topCount + 1].value <= Rounded[cat]

\* six categories under the cutoff 5: the sixth, of the narrower instance, is
\* the row "Other Merchandising"
C12_Witness ==
    /\ mphase = "done"
    /\ topCount = 5
    /\ Len(categoryMap) = 6
    /\ Len(donutData) = 6
    /\ donutData[6].name = OtherName
    /\ donutData[6].value > 0
    /\ donutData[6].value < donutData[1].value
    /\ OtherName \notin Keys(categoryMap)

(* C13: when the cutoff is at least the number of categories, the rows returned
   are the categories, one row each with its two-decimal value, and no
   synthetic row is added *)
C13_NoOtherRow ==
    (mphase = "done" /\ topCount >= Len(categoryMap)) =>
        /\ Len(donutData) = Len(categoryMap)
        /\ TopLabels(Len(donutData)) = Keys(categoryMap)
        /\ \A k \in 1..Len(donutData) : donutData[k].value = Rounded[donutData[k].name]

\* as many categories as the cutoff 5, one of them the text of line 208 itself
C13_Witness ==
    /\ mphase = "done"
    /\ topCount = 5
    /\ Len(categoryMap) = 5
    /\ Len(donutData) = 5
    /\ OtherName \in Keys(categoryMap)
    /\ Cardinality({k \in 1..5 : donutData[k].name = OtherName}) = 1

----------------------------------------------------------------------------
\* the instance carries a tag that names at least one category
Categorized(inst) ==
    /\ ~Blank(inst.merch_category)
    /\ ParseCategories(inst.merch_category) # <<>>

ZeroPointZero == <<"0", ".", "0">>

(* C14 as stated: whenever the grand total is zero, no row is returned and the
   formatted total is "0.0" *)
C14_ZeroTotalGivesNoRows ==
    (mphase = "done" /\ totalLF = 0) =>
        donutData = <<>> /\ totalMerchandisableLF = ZeroPointZero

(* C14 amended: whenever the grand total is zero the formatted total is "0.0"
   and every row returned has value 0 and percentage 0; no row is returned
   exactly when no instance carries a tag that names a category, and the grand
   total is then zero *)
C14_ZeroTotal ==
    mphase = "done" =>
        /\ totalLF = 0 =>
              /\ totalMerchandisableLF = ZeroPointZero
              /\ \A k \in 1..Len(donutData) :
                    donutData[k].value = 0 /\ donutData[k].percentage = 0
        /\ (donutData = <<>>) <=> (\A n \in 1..Len(instances) : ~Categorized(instances[n]))
        /\ donutData = <<>> => totalLF = 0

\* a categorized instance of an asset without a width: total 0.0, one row of
\* value 0 and percentage 0
C14_Witness ==
    /\ mphase = "done"
    /\ Len(instances) = 1
    /\ instances[1].asset_details # NoAsset
    /\ Categorized(instances[1])
    /\ totalLF = 0
    /\ totalMerchandisableLF = ZeroPointZero
    /\ Len(donutData) = 1
    /\ donutData[1].value = 0 /\ donutData[1].percentage = 0

----------------------------------------------------------------------------
\* the sum of the percentages of the rows returned, in tenths of a percent
SumOfPercentages == SumSeq([k \in 1..Len(donutData) |-> donutData[k].percentage])

\* how many categories the last row stands for
Collapsed == IF Len(categoryMap) > topCount THEN Len(categoryMap) - topCount ELSE 0

(* C15 as stated: when the grand total is positive the percentages of the rows
   returned sum to 100 within 0.1 per row returned *)
C15_PercentagesSumTo100 ==
    (mphase = "done" /\ totalLF > 0) =>
        Abs(SumOfPercentages - 1000) <= Len(donutData)

(* C15 amended: when the grand total is positive the percentages of the rows
   returned sum to 100 within 0.1 per row returned plus, when categories are
   collapsed into the last row, 0.5 / (grand total in feet) percentage points
   per collapsed category *)
C15_PercentagesNear100 ==
    (mphase = "done" /\ totalLF > 0) =>
        totalLF * Abs(SumOfPercentages - 1000) <=
            totalLF * Len(donutData) + 5 * Collapsed * FeetDenominator

\* six narrow categories under the cutoff 5: the percentages miss 100 by more
\* than 0.1 per row
C15_Witness ==
    /\ mphase = "done"
    /\ totalLF > 0
    /\ Collapsed = 1
    /\ Len(donutData) = 6
    /\ Abs(SumOfPercentages - 1000) > Len(donutData)
    /\ totalLF * Abs(SumOfPercentages - 1000) <=
            totalLF * Len(donutData) + 5 * Collapsed * FeetDenominator

----------------------------------------------------------------------------
(* C16: no two rows returned by one run of the allocator carry the same label,
   also when a tag lists the text "Other Merchandising" as a category and the
   categories beyond the cutoff are collapsed *)
C16_LabelsAreUnique ==
    mphase = "done" =>
        \A k, l \in 1..Len(donutData) :
            donutData[k].name = donutData[l].name => k = l

----------------------------------------------------------------------------
(* The allocation of collections of shelving instances: instances 600 mm wide
   tagged "Shelving" and instances 300 mm wide tagged "Shelving // Endcap" *)

ExampleLength == 5

Shelving == <<"S", "h", "e", "l", "v", "i", "n", "g">>
Endcap == <<"E", "n", "d", "c", "a", "p">>

WideShelving == InstanceRecord(1, <<>>, Shelving)
NarrowEndcap == InstanceRecord(2, <<>>, Shelving \o <<" ", "/", "/", " ">> \o Endcap)

ExampleLibrary ==
    (1 :> AssetRecord(1, DefaultTypeIds[1], NumberWidth(600), <<>>))
    @@ (2 :> AssetRecord(2, DefaultTypeIds[2], NumberWidth(300), <<>>))

InitExample ==
    /\ library = ExampleLibrary
    /\ instances \in SeqsUpTo({WideShelving, NarrowEndcap}, ExampleLength)
    /\ topCount \in TopRanges
    /\ categoryMap = <<>>
    /\ totalLF = 0
    /\ mphase = IF instances = <<>> THEN "rows" ELSE "instances"
    /\ mi = 1
    /\ donutData = <<>>
    /\ totalMerchandisableLF = <<>>
    /\ BomIdle
    /\ LoadIdle

SpecExample == InitExample /\ [][NextMerch]_vars

\* how many instances of the collection are inst
CountOf(inst) == Cardinality({n \in 1..Len(instances) : instances[n] = inst})

ExampleRows ==
    << [name |-> Shelving, value |-> 689, percentage |-> 875],
       [name |-> Endcap, value |-> 98, percentage |-> 125] >>

(* C17: three instances 600 mm wide tagged "Shelving" and two instances 300 mm
   wide tagged "Shelving // Endcap", in any order, with the cutoff 5 give
   exactly two rows: Shelving with value 6.89 and percentage 87.5, then Endcap
   with value 0.98 and percentage 12.5 *)
C17_ShelvingExample ==
    (mphase = "done" /\ topCount = 5 /\ CountOf(WideShelving) = 3
        /\ CountOf(NarrowEndcap) = 2) =>
        donutData = ExampleRows

\* the collection in the order of the example, allocated
C17_Witness ==
    /\ mphase = "done"
    /\ topCount = 5
    /\ instances = <<WideShelving, WideShelving, WideShelving, NarrowEndcap, NarrowEndcap>>
    /\ donutData = ExampleRows

----------------------------------------------------------------------------
(* donutData as one function of the instance collection and the cutoff *)

\* categoryMap after instances.forEach (174-189)
RECURSIVE CategoryMapOf(_, _)
CategoryMapOf(lib, insts) ==
    IF insts = <<>> THEN <<>>
    ELSE LET inst == insts[Len(insts)]
             map == CategoryMapOf(lib, SubSeq(insts, 1, Len(insts) - 1))
             categories == ParseCategories(CatString(inst))
         IN  IF Trim(CatString(inst)) = <<>> \/ categories = <<>> THEN map
             ELSE AddShares(map, categories, LfShare(WidthMM(lib, inst), Len(categories)))

\* totalLF after instances.forEach (175-189)
RECURSIVE TotalOf(_, _)
TotalOf(lib, insts) ==
    IF insts = <<>> THEN 0
    ELSE LET inst == insts[Len(insts)]
             total == TotalOf(lib, SubSeq(insts, 1, Len(insts) - 1))
             categories == ParseCategories(CatString(inst))
         IN  IF Trim(CatString(inst)) = <<>> \/ categories = <<>> THEN total
             ELSE total + Len(categories) * LfShare(WidthMM(lib, inst), Len(categories))

\* the rows returned (191-215)
DonutOf(lib, insts, n) ==
    DonutSet(SortItems(ChartItems(CategoryMapOf(lib, insts), TotalOf(lib, insts))),
             n, TotalOf(lib, insts))

----------------------------------------------------------------------------
(* The view: the collection is replaced (setInstances, 154) and the cutoff is
   changed (setTopCount, 440); useMemo runs an aggregator again when one of its
   dependencies changed (216, 279).  A render ends before the next update is
   taken; within a render the steps of the two runs are left free to
   interleave, which covers the order of the code, donutData first. *)

ViewLibraries ==
    {(1 :> AssetRecord(1, DefaultTypeIds[1], NumberWidth(600), cs))
        @@ (2 :> AssetRecord(2, DefaultTypeIds[2], NumberWidth(300), <<>>)) :
     cs \in {<<>>, <<[child_asset |-> 2, quantity_required |-> 2,
                     can_add_per_instance |-> FALSE]>>}}

ViewInstances ==
    { InstanceRecord(1, <<>>, <<"L", "/", "/", "H", "/", "/", "E">>),
      InstanceRecord(2, <<[asset_component |-> [child_asset |-> 1], quantity |-> 2]>>,
                     <<"D", "/", "/", "F", "/", "/", "G">>),
      InstanceRecord(1, <<[asset_component |-> [child_asset |-> 2], quantity |-> 1]>>,
                     <<"L", " ", "/", "/", " ", "H">>),
      InstanceRecord(2, <<>>, Absent),
      InstanceRecord(NoAsset, <<>>, <<"L">>) }

\* a mutant of BomRerun: the map of the run before is kept
BomRerunKeepingMap ==
    /\ bomMap' = bomMap
    /\ aggregatedBOM' = <<>>
    /\ MoveTo(Position(library, instances', 1, "parent", 1))

\* 219-220: the callback runs again, on a new Map; its result is not there
\* until it returns
BomRerun ==
    /\ bomMap' = <<>>
    /\ aggregatedBOM' = <<>>
    /\ MoveTo(Position(library, instances', 1, "parent", 1))

\* 173-175: the callback runs again, on a new categoryMap and a total of 0
MerchRerun ==
    /\ categoryMap' = <<>>
    /\ totalLF' = 0
    /\ mi' = 1
    /\ mphase' = IF instances' = <<>> THEN "rows" ELSE "instances"
    /\ donutData' = <<>>
    /\ totalMerchandisableLF' = <<>>

Rendered == phase = "done" /\ mphase = "done"

\* setInstances(instanceData) (154): both memos depend on instances
SetInstances ==
    /\ Rendered
    /\ instances' \in SeqsUpTo(ViewInstances, MaxInstances)
    /\ BomRerun
    /\ MerchRerun
    /\ UNCHANGED <<loadVars, library, topCount>>

\* setTopCount(val) (440): only donutData depends on topCount
SetTopCount ==
    /\ Rendered
    /\ \E val \in TopRanges \ {topCount} : topCount' = val
    /\ instances' = instances
    /\ MerchRerun
    /\ UNCHANGED <<loadVars, library, bomVars>>

\* the first render: no instances (114), cutoff 5 (127)
InitView ==
    /\ library \in ViewLibraries
    /\ instances = <<>>
    /\ topCount = 5
    /\ BomStart
    /\ categoryMap = <<>>
    /\ totalLF = 0
    /\ mphase = "rows"
    /\ mi = 1
    /\ donutData = <<>>
    /\ totalMerchandisableLF = <<>>
    /\ LoadIdle

NextView ==
    \/ BomParent
    \/ BomComponent
    \/ BomOptional
    \/ BomSort
    \/ MerchInstance
    \/ MerchRows
    \/ SetInstances
    \/ SetTopCount

SpecView == InitView /\ [][NextView]_vars

(* C18: whatever replacements of the collection and changes of the cutoff came
   before, a finished BOM is the aggregation of the current collection from
   an empty map, and a finished allocation is the allocation of the current
   collection under the current cutoff from an empty category map and a total
   of zero; the grand total is that of the collection, whatever the cutoff *)
C18_ResultsOfCurrentInputs ==
    /\ phase = "done" => aggregatedBOM = BomOf(library, instances)
    /\ mphase = "done" =>
          /\ donutData = DonutOf(library, instances, topCount)
          /\ categoryMap = CategoryMapOf(library, instances)
          /\ totalLF = TotalOf(library, instances)
          /\ totalMerchandisableLF = ToFixed1(TotalOf(library, instances))

\* a collection and a cutoff that are not those of the first render, with
\* a tail to collapse under cutoff 5 that the current cutoff keeps
C18_Witness ==
    /\ Rendered
    /\ topCount = 10
    /\ Len(instances) = 2
    /\ Len(aggregatedBOM) = 2
    /\ Len(donutData) = 6
    /\ aggregatedBOM = BomOf(library, instances)
    /\ donutData = DonutOf(library, instances, 10)
    /\ donutData # DonutOf(library, instances, 5)

----------------------------------------------------------------------------
(* C19: a step of either aggregator leaves the catalog assets, the instance
   collection and the cutoff as they were, and leaves the state of the other
   aggregator alone; so however the steps of the two runs interleave, the pair
   of finished results is the BOM and the allocation of the collection *)
C19_StepOfAnAggregator ==
    ~Rendered =>
        /\ library' = library
        /\ instances' = instances
        /\ topCount' = topCount
        /\ bomVars' = bomVars \/ merchVars' = merchVars

C19_InputsAreReadOnly ==
    /\ [][C19_StepOfAnAggregator]_vars
    /\ [](Rendered =>
            <<aggregatedBOM, donutData>> =
                <<BomOf(library, instances), DonutOf(library, instances, topCount)>>)

\* the two runs interleaved: the BOM run is at the optional components of the
\* first of two instances while the allocator is at the second instance
C19_Witness ==
    /\ Len(instances) = 2
    /\ phase = "optional" /\ i = 1
    /\ bomMap # <<>>
    /\ mphase = "instances" /\ mi = 2
    /\ categoryMap # <<>>

----------------------------------------------------------------------------
(* C20: within one run of the BOM aggregation, a row whose role is parent is
   still there with the role parent after every later step, whether the step
   adds a parent, a required component or an optional component *)
C20_StepKeepsParents ==
    \A k \in 1..Len(bomMap) :
        ~bomMap[k].isComponent =>
            \E l \in 1..Len(bomMap') :
                /\ bomMap'[l].assetId = bomMap[k].assetId
                /\ ~bomMap'[l].isComponent

C20_ParentStaysParent == [][C20_StepKeepsParents]_vars

\* a parent row that has since been contributed to as a component of P
C20_Witness ==
    \E k \in 1..Len(bomMap) :
        /\ ~bomMap[k].isComponent
        /\ bomMap[k].assetId = 2
        /\ bomMap[k].contributingParents = <<AssetNames[1]>>
        /\ bomMap[k].totalQuantity >= 2

----------------------------------------------------------------------------
\* the tag holds a character that is neither white space nor a slash
HasNameCharacter(tag) ==
    tag # Absent /\ \E k \in 1..Len(tag) : tag[k] \notin {" ", "/"}

(* C21 as stated: a tag that is not empty or white space only parses to at
   least one category name, and the step of its instance adds the whole
   width / 304.8 of the instance to the grand total *)
C21_StepOfNonBlankTag ==
    (mphase = "instances" /\ ~Blank(instances[mi].merch_category)) =>
        /\ Len(ParseCategories(instances[mi].merch_category)) >= 1
        /\ totalLF' = totalLF + FullFootage(instances[mi])

C21_NonBlankTagAddsWidth == [][C21_StepOfNonBlankTag]_vars

(* C21 amended: a tag that holds a character other than white space and "/"
   parses to at least one category name; the step of an instance whose tag
   parses to at least one name adds the whole width / 304.8 of the instance
   to the grand total, once; a tag that is not blank but parses to no name,
   such as "//", adds nothing *)
C21_StepOfNamedTag ==
    (mphase = "instances" /\ ~Blank(instances[mi].merch_category)) =>
        LET tag == instances[mi].merch_category
            categories == ParseCategories(tag)
        IN  /\ HasNameCharacter(tag) => Len(categories) >= 1
            /\ Len(categories) >= 1 => totalLF' = totalLF + FullFootage(instances[mi])
            /\ Len(categories) = 0 => totalLF' = totalLF /\ categoryMap' = categoryMap

C21_NamedTagAddsWidth == [][C21_StepOfNamedTag]_vars

\* the tag "//" on an instance 600 mm wide, then "L // H" on one as wide: the
\* total is the footage of the second alone
C21_Witness ==
    /\ mphase = "done"
    /\ Len(instances) = 2
    /\ instances[1].merch_category = <<"/", "/">>
    /\ instances[2].merch_category = <<"L", " ", "/", "/", " ", "H">>
    /\ WidthMM(library, instances[1]) = 600
    /\ WidthMM(library, instances[2]) = 600
    /\ totalLF = FullFootage(instances[2])
    /\ Len(categoryMap) = 2

----------------------------------------------------------------------------
\* p tenths of a percent is amount / total * 100 rounded to one decimal, a tie
\* rounded up; the amount is handed over as 2000 * amount, in the unit of total
RoundsToTenths(p, amount2000, total) ==
    /\ 2 * p * total - total <= amount2000
    /\ amount2000 < 2 * p * total + total

\* how many of the rows returned are rows of a category
CategoryRows == Len(donutData) - (IF Collapsed > 0 THEN 1 ELSE 0)

(* C22: when the grand total is positive, the percentage of each category row
   is the accumulator of its category divided by the grand total, times 100,
   rounded to one decimal, and the percentage of the last row, when categories
   are collapsed, is its summed value divided by the grand total, times 100,
   rounded to one decimal; when the grand total is zero every percentage is 0 *)
C22_PercentageRule ==
    mphase = "done" =>
        /\ totalLF > 0 =>
              /\ \A k \in 1..CategoryRows :
                    RoundsToTenths(donutData[k].percentage,
                                   2000 * ValueOf(categoryMap, donutData[k].name),
                                   totalLF)
              /\ Collapsed > 0 =>
                    RoundsToTenths(donutData[Len(donutData)].percentage,
                                   20 * donutData[Len(donutData)].value * FeetDenominator,
                                   totalLF)
        /\ totalLF = 0 =>
              \A k \in 1..Len(donutData) : donutData[k].percentage = 0

\* six categories of unequal widths under the cutoff 5: category rows of 22.2 %
\* and 11.1 %, and a last row with a percentage of its own
C22_Witness ==
    /\ mphase = "done"
    /\ totalLF > 0
    /\ Collapsed = 1
    /\ Len(donutData) = 6
    /\ donutData[1].percentage = 222
    /\ donutData[5].percentage = 111
    /\ donutData[6].percentage > 0
    /\ donutData[6].percentage # donutData[5].percentage

----------------------------------------------------------------------------
\* where the category of the k-th row returned stands in categoryMap
RankedKey(k) == KeyIndex(categoryMap, donutData[k].name)

\* the row a ranks ahead of the row b: a higher value, or the same value and
\* an earlier key (the sort is stable)
Ahead(a, posA, b, posB) ==
    a.value > b.value \/ (a.value = b.value /\ posA < posB)

(* C23: the category rows returned, those before any "Other Merchandising"
   row, are rows of the uncapped list with name, value and percentage as they
   were; they are in non-increasing order of value, rows of equal value in
   the order of their keys, and every category that is left out ranks after
   all of them: they are the first N rows of the descending ranking *)
C23_FirstRowsOfRanking ==
    mphase = "done" =>
        /\ CategoryRows = Min(topCount, Len(categoryMap))
        /\ \A k \in 1..CategoryRows :
              /\ RankedKey(k) # 0
              /\ donutData[k] = UncappedRows[RankedKey(k)]
        /\ \A k \in 1..(CategoryRows - 1) :
              Ahead(donutData[k], RankedKey(k), donutData[k + 1], RankedKey(k + 1))
        /\ \A q \in 1..Len(categoryMap) :
              (\A k \in 1..CategoryRows : RankedKey(k) # q) =>
                  \A k \in 1..CategoryRows :
                      Ahead(donutData[k], RankedKey(k), UncappedRows[q], q)

\* six categories under the cutoff 5, the wider three first, the fourth and
\* fifth rows of equal value in the order of their keys
C23_Witness ==
    /\ mphase = "done"
    /\ Collapsed = 1
    /\ Len(donutData) = 6
    /\ donutData[1].value > donutData[4].value
    /\ donutData[4].value = donutData[5].value
    /\ RankedKey(1) = 4
    /\ RankedKey(4) = 1 /\ RankedKey(5) = 2

----------------------------------------------------------------------------
(* C24: the step of an instance that has no asset adds no category and adds
   nothing to a category total or to the grand total, whatever its tag *)
C24_StepOfAssetlessInstance ==
    (mphase = "instances" /\ instances[mi].asset_details = NoAsset) =>
        categoryMap' = categoryMap /\ totalLF' = totalLF

C24_AssetlessInstanceIsSkipped == [][C24_StepOfAssetlessInstance]_vars

----------------------------------------------------------------------------
\* the instance has an asset whose width is null, a text that is no number, or
\* absent
WithoutNumericWidth(inst) ==
    /\ inst.asset_details # NoAsset
    /\ library[inst.asset_details].overall_width \in {NullWidth, TextWidth, AbsentWidth}

(* C25: the step of a categorized instance whose asset has no numeric width
   creates the categories of the tag that are not there yet, leaves every
   category total and the grand total as they were, that is, adds 0, and the
   run goes on to return rows whose values and percentages are numbers *)
C25_StepWithoutNumericWidth ==
    (mphase = "instances" /\ WithoutNumericWidth(instances[mi])
        /\ Categorized(instances[mi])) =>
        /\ Keys(categoryMap') =
              Keys(categoryMap) \cup Rows(ParseCategories(instances[mi].merch_category))
        /\ \A cat \in Keys(categoryMap') :
              ValueOf(categoryMap', cat) = ValueOf(categoryMap, cat)
        /\ totalLF' = totalLF
        /\ mphase' \in {"instances", "rows"}

C25_RowsAreNumbers ==
    mphase = "done" =>
        \A k \in 1..Len(donutData) :
            donutData[k].value \in Nat /\ donutData[k].percentage \in 0..1000

C25_NonNumericWidthIsZero ==
    [][C25_StepWithoutNumericWidth]_vars /\ []C25_RowsAreNumbers

\* an instance 600 mm wide tagged "L", then one of an asset whose width is null,
\* a text or absent, tagged "L // H": L keeps its footage, H is there with 0
C25_Witness ==
    /\ mphase = "done"
    /\ Len(instances) = 2
    /\ WidthMM(library, instances[1]) = 600
    /\ WithoutNumericWidth(instances[2])
    /\ instances[2].merch_category = <<"L", " ", "/", "/", " ", "H">>
    /\ Len(donutData) = 2
    /\ donutData[1].name = <<"L">> /\ donutData[1].value = 197
    /\ donutData[1].percentage = 1000
    /\ donutData[2].name = <<"H">> /\ donutData[2].value = 0
    /\ donutData[2].percentage = 0
    /\ totalLF = FullFootage(instances[1])

----------------------------------------------------------------------------
(* The bill of materials of a catalog of three assets: asset 1 includes asset
   2, asset 2 includes asset 3, and the manufacturer of assets 1 and 2 comes in
   every form the API sends *)

\* Asset.manufacturer and Asset.manufacturer_name
ManufacturerForms ==
    { <<[number |-> 7], "Flat">>,
      <<[number |-> 7], "">>,
      <<[number |-> 7], Undefined>>,
      <<[null |-> TRUE], "Flat">>,
      <<[label |-> "Nested"], "Flat">>,
      <<[name |-> "Nested"], "Flat">>,
      <<[name |-> ""], "Flat">> }

WithManufacturer(asset, form) ==
    [asset EXCEPT !.manufacturer = form[1], !.manufacturer_name = form[2]]

Includes(child, qty) ==
    <<[child_asset |-> child, quantity_required |-> qty, can_add_per_instance |-> FALSE]>>

CatalogLibraries ==
    {(1 :> WithManufacturer(AssetRecord(1, DefaultTypeIds[1], NullWidth, Includes(2, 1)), f1))
        @@ (2 :> WithManufacturer(AssetRecord(2, DefaultTypeIds[2], NullWidth, Includes(3, 2)), f2))
        @@ (3 :> AssetRecord(3, DefaultTypeIds[3], NullWidth, <<>>)) :
     f1 \in ManufacturerForms, f2 \in ManufacturerForms}

CatalogInstances ==
    {InstanceRecord(a, <<>>, Absent) : a \in AssetIds}
    \cup {InstanceRecord(3, <<[asset_component |-> [child_asset |-> 1], quantity |-> 1]>>,
                         Absent),
          InstanceRecord(1, <<[asset_component |-> [child_asset |-> 3], quantity |-> 2]>>,
                         Absent)}

InitCatalog ==
    /\ library \in CatalogLibraries
    /\ instances \in SeqsUpTo(CatalogInstances, MaxInstances)
    /\ BomStart
    /\ MerchIdle
    /\ LoadIdle

SpecCatalog == InitCatalog /\ [][NextBOM]_vars

(* C26: the manufacturer of a row is the name of the nested manufacturer object
   when the asset's manufacturer is an object with a name, otherwise the flat
   manufacturer_name when that is not empty, otherwise the dash; it is never
   the empty text *)
C26_ManufacturerOfRow ==
    \A k \in 1..Len(bomMap) :
        LET asset == library[bomMap[k].assetId] IN
        /\ bomMap[k].manufacturer =
              IF "name" \in DOMAIN asset.manufacturer THEN asset.manufacturer.name
              ELSE IF asset.manufacturer_name \notin {"", Undefined}
                   THEN asset.manufacturer_name
                   ELSE Dash
        /\ bomMap[k].manufacturer # ""

----------------------------------------------------------------------------
\* the assets one instance brings into the bill: its own asset, the children
\* of the component definitions of that asset, and the children of its own
\* optional components
DirectIds(n) ==
    IF n \notin Participating THEN {}
    ELSE {instances[n].asset_details}
         \cup {id \in AssetIds : RequiredDefs(n, id) # {} \/ OptionalRefs(n, id) # {}}

(* C27: a step at an instance touches only the rows of the assets that
   instance brings in directly, never the rows of the components of its
   components; in the finished bill an asset has a row exactly when some
   instance brings it in directly, and its quantity counts direct
   contributions only, so the definitions listed on a child count only where
   the child is itself the asset of an instance *)
C27_StepOfOneLevel ==
    phase \in {"parent", "components", "optional"} =>
        \A id \in AssetIds :
            (RowIndex(bomMap', id) # 0 /\
                (RowIndex(bomMap, id) = 0 \/
                    bomMap'[RowIndex(bomMap', id)] # bomMap[RowIndex(bomMap, id)]))
                => id \in DirectIds(i)

C27_BillOfOneLevel ==
    phase = "done" =>
        \A id \in AssetIds :
            /\ RowIndex(bomMap, id) # 0 <=> \E n \in 1..Len(instances) : id \in DirectIds(n)
            /\ RowIndex(bomMap, id) # 0 => QuantityIn(bomMap, id) = ExpectedQuantity(id)

C27_OneLevelOfNesting == [][C27_StepOfOneLevel]_vars /\ []C27_BillOfOneLevel

\* one instance of asset 1, which includes asset 2, which includes asset 3:
\* rows for 1 and 2 only
C27_Witness ==
    /\ phase = "done"
    /\ Len(instances) = 1
    /\ instances[1].asset_details = 1
    /\ library[1].components[1].child_asset = 2
    /\ library[2].components[1].child_asset = 3
    /\ Len(aggregatedBOM) = 2
    /\ RowIndex(bomMap, 1) # 0 /\ RowIndex(bomMap, 2) # 0
    /\ RowIndex(bomMap, 3) = 0

----------------------------------------------------------------------------
\* the orders a collection of n instances can be put in
Orderings(n) ==
    {f \in [1..n -> 1..n] : \A a, b \in 1..n : f[a] = f[b] => a = b}

Permuted(insts, f) == [k \in 1..Len(insts) |-> insts[f[k]]]

\* of each row its asset id, its quantity and the set of its contributing parents
Summary(map) ==
    {<<map[k].assetId, map[k].totalQuantity, Rows(map[k].contributingParents)>> :
        k \in 1..Len(map)}

(* C28: the bill of every reordering of the instance collection has rows for
   the same asset ids, each with the same totalQuantity and the same set of
   contributing parents *)
C28_OrderOfInstances ==
    phase = "done" =>
        \A f \in Orderings(Len(instances)) :
            Summary(BomMapOf(library, Permuted(instances, f))) = Summary(bomMap)

\* an instance of asset 2, which includes asset 3, then an instance of asset 1
\* with asset 3 as an optional component: swapped, the rows come out in another
\* order and asset 2 in another role; ids, quantities and contributors agree
C28_Witness ==
    /\ phase = "done"
    /\ Len(instances) = 2
    /\ LET swapped == BomMapOf(library, <<instances[2], instances[1]>>) IN
       /\ swapped # bomMap
       /\ Len(bomMap) = 3
       /\ ~bomMap[RowIndex(bomMap, 2)].isComponent
       /\ swapped[RowIndex(swapped, 2)].isComponent
       /\ bomMap[RowIndex(bomMap, 3)].totalQuantity = 4
       /\ Len(bomMap[RowIndex(bomMap, 3)].contributingParents) = 2
       /\ Summary(swapped) = Summary(bomMap)

\* ---------------------------------------------------------------------------
\* The load effect of the snapshot view (139-164): each run of the effect is a
\* load of its own, with its own isMounted flag, awaiting first the snapshot
\* and then the project and the instances together.
\* ---------------------------------------------------------------------------

MaxLoads == 3

\* the snapshot ids the route can name
SnapshotIds == {1, 2}

\* what the server holds for a snapshot id
SnapshotOf(id) == [id |-> id, project |-> id + 10]
ProjectOf(id) == [id |-> id]
InstancesOf(id) ==
    IF id = 1
    THEN <<InstanceRecord(ExampleLibrary[1], <<>>, <<"L">>)>>
    ELSE <<InstanceRecord(ExampleLibrary[2], <<>>, Absent),
           InstanceRecord(ExampleLibrary[1], <<>>, <<"H">>)>>

\* a run of the effect: let isMounted = true; void loadData()
NewLoad(id) ==
    [id |-> id, isMounted |-> TRUE, pc |-> "snapshot",
     snapData |-> NoSnapshot, proj |-> "none", inst |-> "none"]

\* the cleanup of the latest run: isMounted = false (163)
Cleanup(ls) ==
    IF ls = <<>> THEN ls
    ELSE [ls EXCEPT ![Len(ls)] = [@ EXCEPT !.isMounted = FALSE]]

\* if (!isMounted) return (145, 153); if (isMounted) (160)
AlwaysMounted(load) == TRUE

StillMounted(load) == load.isMounted

\* finally: if (isMounted) setLoading(false) (159-161)
Finally(load) == IF StillMounted(load) THEN FALSE ELSE loading

\* the route names another snapshot: the cleanup of the previous run, then a
\* new run of the effect (139-164); no state of the view is reset
ChangeRoute ==
    /\ mounted
    /\ Len(loads) < MaxLoads
    /\ \E id \in SnapshotIds \ {routeId} :
        /\ routeId' = id
        /\ loads' = Append(Cleanup(loads), NewLoad(id))
    /\ UNCHANGED <<mounted, snapshot, project, loading, instances>>
    /\ UNCHANGED <<library, topCount, bomVars, merchVars>>

\* the view leaves the page: the cleanup of the latest run
Unmount ==
    /\ mounted
    /\ mounted' = FALSE
    /\ loads' = Cleanup(loads)
    /\ UNCHANGED <<routeId, snapshot, project, loading, instances>>
    /\ UNCHANGED <<library, topCount, bomVars, merchVars>>

\* await fetchSnapshotDetail(Number(id)) settles (144-146): on success of a
\* load still mounted the snapshot is set and the two other fetches start
\* (147-151); otherwise the load returns through the finally (145, 156-161)
SnapshotSettles ==
    \E l \in 1..Len(loads) : \E ok \in BOOLEAN :
        /\ loads[l].pc = "snapshot"
        /\ IF ok /\ StillMounted(loads[l])
           THEN /\ snapshot' = SnapshotOf(loads[l].id)
                /\ loads' = [loads EXCEPT ![l] =
                        [@ EXCEPT !.pc = "details",
                                  !.snapData = SnapshotOf(loads[l].id),
                                  !.proj = "pending", !.inst = "pending"]]
                /\ UNCHANGED loading
           ELSE /\ loads' = [loads EXCEPT ![l] = [@ EXCEPT !.pc = "returned"]]
                /\ loading' = Finally(loads[l])
                /\ UNCHANGED snapshot
        /\ UNCHANGED <<routeId, mounted, project, instances>>
        /\ UNCHANGED <<library, topCount, bomVars, merchVars>>

\* await Promise.all([...]) (148-151) after one of its two fetches settled
\* with the outcomes proj and inst: it rejects with the first failure, it
\* resolves when both succeeded, and it waits otherwise
DetailsSettle(l, proj, inst) ==
    LET load == loads[l]
        failed == "failed" \in {proj, inst}
        done == proj = "ok" /\ inst = "ok"
    IN  /\ loads' = [loads EXCEPT ![l] =
                [@ EXCEPT !.proj = proj, !.inst = inst,
                          !.pc = IF failed \/ done THEN "returned" ELSE @]]
        /\ IF done /\ StillMounted(load)
           THEN /\ project' = ProjectOf(load.snapData.project)
                /\ instances' = InstancesOf(load.id)
           ELSE UNCHANGED <<project, instances>>
        /\ loading' = IF failed \/ done THEN Finally(load) ELSE loading
        /\ UNCHANGED <<routeId, mounted, snapshot>>
        /\ UNCHANGED <<library, topCount, bomVars, merchVars>>

\* fetchProjectDetail(snapData.project) settles (149)
ProjectSettles ==
    \E l \in 1..Len(loads) : \E ok \in BOOLEAN :
        /\ loads[l].pc = "details"
        /\ loads[l].proj = "pending"
        /\ DetailsSettle(l, IF ok THEN "ok" ELSE "failed", loads[l].inst)

\* fetchInstancesForSnapshot(Number(id)) settles (150)
InstancesSettle ==
    \E l \in 1..Len(loads) : \E ok \in BOOLEAN :
        /\ loads[l].pc = "details"
        /\ loads[l].inst = "pending"
        /\ DetailsSettle(l, loads[l].proj, IF ok THEN "ok" ELSE "failed")

\* the first render of the view (112-115) and the first run of the effect
InitLoad ==
    /\ library = ExampleLibrary
    /\ instances = <<>>
    /\ BomIdle
    /\ MerchIdle
    /\ routeId \in SnapshotIds
    /\ mounted = TRUE
    /\ snapshot = NoSnapshot
    /\ project = NoProject
    /\ loading = TRUE
    /\ loads = <<NewLoad(routeId)>>

NextLoad ==
    \/ ChangeRoute
    \/ Unmount
    \/ SnapshotSettles
    \/ ProjectSettles
    \/ InstancesSettle

SpecLoad == InitLoad /\ [][NextLoad]_vars


\* ---------------------------------------------------------------------------
\* C29: once the cleanup of a run of the load effect has run, no step of that
\* load writes snapshot, project, instances or loading, whatever the order in
\* which its three fetches settle.
\* ---------------------------------------------------------------------------
C29_StepOfStaleLoad ==
    \A l \in 1..Len(loads) :
        (~loads[l].isMounted /\ loads'[l] # loads[l])
            => UNCHANGED <<snapshot, project, instances, loading>>

C29_LateResponseIsNotApplied == [][C29_StepOfStaleLoad]_vars

\* the first load set its snapshot, the route changed, and then both of its
\* other fetches succeeded: nothing of them is in the view, which still waits
\* for the second load
C29_Witness ==
    /\ Len(loads) = 2
    /\ ~loads[1].isMounted
    /\ loads[1].pc = "returned"
    /\ loads[1].proj = "ok"
    /\ loads[1].inst = "ok"
    /\ loads[2].pc = "snapshot"
    /\ snapshot = SnapshotOf(loads[1].id)
    /\ project = NoProject
    /\ instances = <<>>
    /\ loading = TRUE

\* ---------------------------------------------------------------------------
\* C30: whenever the view is mounted with loading false, instances is empty or
\* is the collection of the snapshot the route names.
\* ---------------------------------------------------------------------------
C30_InstancesOfCurrentRoute ==
    (mounted /\ ~loading)
        => (instances = <<>> \/ instances = InstancesOf(routeId))

====
